---- MODULE Spec2Model ----
(***************************************************************************)
(* Model of usdQt/variantSets.py: the variant editor's lazy item tree      *)
(* (LazyVariantTree), its Qt item model (VariantModel), the context menu   *)
(* actions (VariantContextMenuBuilder) and the dialog's SelectVariant.     *)
(*                                                                         *)
(* The scene is one prim P with variant sets.  A PrimVariant is a pair     *)
(* <<setName, variantName>>; a VariantItem is identified by its key, the   *)
(* chain parentVariants + [variant], a sequence of PrimVariants; the root  *)
(* of the item tree is the empty chain.                                    *)
(*                                                                         *)
(* The calls into the scene library (pxr.Usd, usdlib.variants) are         *)
(* modelled at the call sites by what the call does to the variant sets,   *)
(* variant names and selections of the prim:                               *)
(*   - variant specs are authored on the prim itself ({set=name}), set     *)
(*     names on the prim or inside one variant;                            *)
(*   - a variant set is composed on the prim when it is named on the prim  *)
(*     or inside the selected variant of a composed set;                   *)
(*   - GetVariantSelection answers the selection applied by composition:   *)
(*     the authored one when the set is composed, empty otherwise;         *)
(*   - SessionVariantContext overrides selections in the session layer     *)
(*     for the duration of the with-block.                                 *)
(***************************************************************************)
EXTENDS Naturals, Sequences, FiniteSets

VARIABLES
    primValid,     \* bool(prim): the Usd.Prim is a valid prim
    prims,         \* VariantModel._prims
    topSets,       \* variant set names authored on the prim, in authoring order
    nestedSets,    \* <<set, variant>> -> set names authored inside that variant
    variantNames,  \* set -> variant names authored for the set
    selection,     \* set -> variant selection authored on the stage's edit target
    session,       \* set -> selection opinion of the session layer, or NoOpinion
    treeId,        \* identity of VariantModel.itemTree (a new one per new tree)
    children,      \* itemTree: fetched node -> what _fetchItemChildren did and returned
    expanded,      \* nodes expanded in the tree view
    resetCalls,    \* number of VariantModel.Reset calls so far
    cancelled,     \* the last handler run was an add action cancelled by an empty name
    added          \* the last add action that authored: what it added, and the tree its Reset made

vars == <<primValid, prims, topSets, nestedSets, variantNames, selection,
          session, treeId, children, expanded, resetCalls,
          cancelled, added>>

scene == <<topSets, nestedSets, variantNames, selection, session>>

\* ---------------------------------------------------------------- bounds

MaxResets == 2

SetNames == {"a", "b"}
VarNames == {"x", "y"}
NameOrder == <<"x", "y">>
NoOpinion == "<none>"
Root == <<>>

\* ---------------------------------------------------------------- helpers

Range(seq) == {seq[i] : i \in 1..Len(seq)}

SeqOf(S) == SelectSeq(NameOrder, LAMBDA v : v \in S)

AppendNew(seq, e) == IF e \in Range(seq) THEN seq ELSE Append(seq, e)

\* VariantItem fields, from the item's key
IsVariantItem(node) == node # Root
ItemVariant(item) == item[Len(item)]
ItemSetName(item) == item[Len(item)][1]
ItemVariantName(item) == item[Len(item)][2]
ItemParentVariants(item) == SubSeq(item, 1, Len(item) - 1)
ItemVariants(item) == ItemParentVariants(item) \o <<ItemVariant(item)>>

VariantItem(parentVariants, primVariant) == parentVariants \o <<primVariant>>

\* ---------------------------------------------------------------- scene

\* The selection a reader of the stage sees for a set: the session layer's
\* opinion when it has one, else the one authored on the edit target.
Effective(sess) ==
    [s \in SetNames |-> IF sess[s] # NoOpinion THEN sess[s] ELSE selection[s]]

\* The variant sets composed on the prim under selections e, outermost first:
\* the sets named on the prim, then the sets named inside the selected variant
\* of each composed set.
RECURSIVE Compose(_, _, _)
Compose(done, todo, e) ==
    IF todo = <<>> THEN done
    ELSE LET s == Head(todo) IN
         IF s \in Range(done) THEN Compose(done, Tail(todo), e)
         ELSE Compose(Append(done, s),
                      Tail(todo) \o (IF e[s] \in VarNames
                                     THEN nestedSets[<<s, e[s]>>] ELSE <<>>),
                      e)

ComposedSets(e) == Compose(<<>>, topSets, e)

\* prim.GetVariantSet(setName).GetVariantSelection()
GetVariantSelection(setName, e) ==
    IF setName \in Range(ComposedSets(e)) THEN e[setName] ELSE ""

\* variantSet.GetVariantNames()
GetVariantNames(setName) == SeqOf(variantNames[setName])

\* varlib.getPrimVariants(prim): the composed sets with a selected variant,
\* outermost first, then the composed sets with no selection, as (set, '').
getPrimVariants(e) ==
    LET cs == ComposedSets(e)
        sel == SelectSeq(cs, LAMBDA s : e[s] # "")
        unsel == SelectSeq(cs, LAMBDA s : e[s] = "")
    IN [i \in 1..Len(sel) |-> <<sel[i], e[sel[i]]>>]
       \o [i \in 1..Len(unsel) |-> <<unsel[i], "">>]

\* varlib.SessionVariantContext(prim, variants).__enter__: set each variant
\* of the chain in the session layer.
ContextEnter(sess, variants) ==
    [s \in SetNames |->
        IF \E i \in 1..Len(variants) : variants[i][1] = s
        THEN variants[CHOOSE i \in 1..Len(variants) :
                          /\ variants[i][1] = s
                          /\ \A j \in (i+1)..Len(variants) : variants[j][1] # s][2]
        ELSE sess[s]]

ContextExit_keeps(saved, inside) == inside

\* varlib.SessionVariantContext.__exit__: the session layer is as it was
\* before the with-block; it runs on the return from inside the block too.
ContextExit(saved, inside) == saved

\* ---------------------------------------------------------------- LazyVariantTree

IsClearSelection_never(parent) == FALSE

\* isinstance(parent, VariantItem) and not parent.variant.variantName
IsClearSelection(parent) ==
    IsVariantItem(parent) /\ ItemVariantName(parent) = ""

\* if primVariant in parentVariants: continue
SkipVariant(primVariant, parentVariants) ==
    primVariant \in Range(parentVariants)

\* list.remove(x): the first x is removed
RECURSIVE ListRemove(_, _)
ListRemove(seq, x) ==
    IF seq = <<>> THEN <<>>
    ELSE IF Head(seq) = x THEN Tail(seq)
    ELSE <<Head(seq)>> \o ListRemove(Tail(seq), x)

AltNames_noClear(names, primVariant) ==
    IF primVariant[2] # "" THEN ListRemove(names, primVariant[2]) ELSE names

\* the names of the non-selected items: the selected name is replaced by the
\* empty 'clear selection' name, at the end
AltNames(names, primVariant) ==
    IF primVariant[2] # ""
    THEN Append(ListRemove(names, primVariant[2]), "")
    ELSE names

\* the items built for the variant set of primVariant
VariantItems(parentVariants, primVariant, names) ==
    LET alt == AltNames(names, primVariant) IN
    <<VariantItem(parentVariants, primVariant)>>
    \o [i \in 1..Len(alt) |->
           VariantItem(parentVariants, <<primVariant[1], alt[i]>>)]

\* LazyVariantTree._fetchItemChildren(parent): what it returns, whether it
\* entered the session variant context and queried the prim's variants, and
\* the session layer it leaves behind.
fetchItemChildren(parent) ==
    IF ~primValid
    THEN [ret |-> "None", items |-> <<>>, entered |-> FALSE,
          queried |-> FALSE, session |-> session]
    ELSE IF IsClearSelection(parent)
    THEN [ret |-> "list", items |-> <<>>, entered |-> FALSE,
          queried |-> FALSE, session |-> session]
    ELSE
      LET parentVariants == IF IsVariantItem(parent)
                            THEN ItemParentVariants(parent)
                                 \o <<ItemVariant(parent)>>
                            ELSE <<>>
          inside == ContextEnter(session, parentVariants)
          pvs == getPrimVariants(Effective(inside))
          cand == SelectSeq(pvs, LAMBDA pv : ~SkipVariant(pv, parentVariants))
          names == GetVariantNames(Head(cand)[1])
          after == ContextExit(session, inside)
      IN IF cand = <<>>
         THEN [ret |-> "list", items |-> <<>>, entered |-> TRUE,
               queried |-> TRUE, session |-> after]
         ELSE IF Head(cand)[2] # "" /\ Head(cand)[2] \notin Range(names)
         THEN [ret |-> "ValueError", items |-> <<>>, entered |-> TRUE,
               queried |-> TRUE, session |-> after]
         ELSE [ret |-> "list",
               items |-> VariantItems(parentVariants, Head(cand), names),
               entered |-> TRUE, queried |-> TRUE, session |-> after]

\* ---------------------------------------------------------------- VariantModel

\* the nodes of itemTree: the root and every item fetched so far
TreeItems == UNION {Range(children[n].items) : n \in DOMAIN children}
TreeNodes == {Root} \cup TreeItems

\* the node an item was fetched under
ItemParent(item) == ItemParentVariants(item)

\* the rows the view shows: the top-level items and the items under an
\* expanded item
Shown(node) == node = Root \/ ItemParent(node) = Root \/ ItemParent(node) \in expanded

RECURSIVE Flatten(_)
Flatten(seqs) == IF seqs = <<>> THEN <<>> ELSE Head(seqs) \o Flatten(Tail(seqs))

\* the shown rows from top to bottom, under and including node
RECURSIVE Rows(_)
Rows(node) ==
    <<node>> \o
    (IF node \in DOMAIN children /\ (node = Root \/ node \in expanded)
     THEN Flatten([i \in 1..Len(children[node].items) |->
                      Rows(children[node].items[i])])
     ELSE <<>>)

\* the rows whose children the tree has not been asked for yet
Unfetched == SelectSeq(Rows(Root), LAMBDA n : n \notin DOMAIN children)

\* the view has laid out its rows: it does so before it handles the next
\* user event
LaidOut == Unfetched = <<>>

\* VariantItem.selected, as read outside any session variant context
Selected(item) ==
    GetVariantSelection(ItemSetName(item), Effective(session)) = ItemVariantName(item)

\* VariantModel.prim
ModelPrim == IF Cardinality(prims) = 1 THEN "P" ELSE "None"

Reset_keepsTree ==
    /\ resetCalls' = resetCalls + 1
    /\ expanded' = {}
    /\ UNCHANGED <<treeId, children>>

\* VariantModel.Reset: beginResetModel, a new LazyVariantTree when exactly one
\* prim is selected, endResetModel (the view drops its expansion state)
Reset ==
    /\ resetCalls' = resetCalls + 1
    /\ expanded' = {}
    /\ IF Cardinality(prims') = 1
       THEN treeId' = treeId + 1 /\ children' = <<>>
       ELSE UNCHANGED <<treeId, children>>

Added(op, setName, name, tree) ==
    [op |-> op, setName |-> setName, name |-> name, tree |-> tree]

\* the tree a Reset made, 0 when it made none
NewTree == IF treeId' # treeId THEN treeId' ELSE 0

InitScenes ==
    { [topSets |-> <<>>,
       nestedSets |-> [pv \in SetNames \X VarNames |-> <<>>],
       variantNames |-> [s \in SetNames |-> {}]],
      [topSets |-> <<"a">>,
       nestedSets |-> [pv \in SetNames \X VarNames |-> <<>>],
       variantNames |-> [s \in SetNames |-> {}]],
      [topSets |-> <<"a">>,
       nestedSets |-> [pv \in SetNames \X VarNames |->
                          IF pv = <<"a", "x">> THEN <<"b">> ELSE <<>>],
       variantNames |-> [s \in SetNames |-> IF s = "a" THEN {"x", "y"} ELSE {"x"}]] }

\* VariantEditorDialog.__init__ / VariantModel.__init__: one prim selected,
\* the model reset once
Init ==
    /\ primValid \in BOOLEAN
    /\ prims = {"P"}
    /\ \E sc \in InitScenes :
          /\ topSets = sc.topSets
          /\ nestedSets = sc.nestedSets
          /\ variantNames = sc.variantNames
    /\ selection = [s \in SetNames |-> ""]
    /\ session = [s \in SetNames |-> NoOpinion]
    /\ treeId = 1
    /\ children = <<>>
    /\ expanded = {}
    /\ resetCalls = 1
    /\ cancelled = FALSE
    /\ added = Added("none", "", "", 0)

\* The view asks the model for the row count of a shown node (to draw it and
\* its expandable indicator), laying out the rows from top to bottom;
\* LazyItemTree fetches the node's children with _fetchItemChildren the first
\* time they are asked for.
RowCount(node) ==
    /\ Unfetched # <<>>
    /\ node = Head(Unfetched)
    /\ LET r == fetchItemChildren(node) IN
          /\ children' = [n \in DOMAIN children \cup {node} |->
                             IF n = node
                             THEN [items |-> r.items, ret |-> r.ret,
                                   entered |-> r.entered, queried |-> r.queried]
                             ELSE children[n]]
          /\ session' = r.session
    /\ UNCHANGED <<primValid, prims, topSets, nestedSets, variantNames,
                   selection, treeId, expanded, resetCalls, cancelled, added>>

\* The user expands a shown item that has children.
Expand(node) ==
    /\ LaidOut
    /\ node \in TreeItems
    /\ Shown(node)
    /\ node \in DOMAIN children
    /\ children[node].items # <<>>
    /\ node \notin expanded
    /\ expanded' = expanded \cup {node}
    /\ UNCHANGED <<primValid, prims, scene, treeId, children, resetCalls,
                   cancelled, added>>

\* VariantModel.PrimSelectionChanged(selected, deselected)
PrimSelectionChanged(selected, deselected) ==
    /\ resetCalls < MaxResets
    /\ prims' = (prims \ deselected) \cup selected
    /\ Reset
    /\ cancelled' = FALSE
    /\ UNCHANGED <<primValid, scene, added>>

\* VariantModel.EditTargetChanged(layer)
EditTargetChanged ==
    /\ cancelled' = FALSE
    /\ UNCHANGED <<primValid, prims, scene, treeId, children, expanded,
                   resetCalls, added>>

\* ---------------------------------------------------------------- VariantEditorDialog

SetVariantSelection_noop(setName, variantName) == selection

\* variantSet.SetVariantSelection(variantName), on the stage's edit target
SetVariantSelection(setName, variantName) ==
    [selection EXCEPT ![setName] = variantName]

\* VariantEditorDialog.SelectVariant(selectedIndex) on a VariantItem
SelectVariant(item) ==
    /\ LaidOut
    /\ item \in TreeItems
    /\ Shown(item)
    /\ selection' = SetVariantSelection(ItemSetName(item), ItemVariantName(item))
    /\ cancelled' = FALSE
    /\ UNCHANGED <<primValid, prims, topSets, nestedSets, variantNames, session,
                   treeId, children, expanded, resetCalls, added>>

\* SelectVariant() with no index given and nothing selected in the view
SelectVariantNothing ==
    /\ LaidOut
    /\ cancelled' = FALSE
    /\ UNCHANGED <<primValid, prims, scene, treeId, children, expanded,
                   resetCalls, added>>

\* ---------------------------------------------------------------- VariantContextMenuBuilder

DialogVariantNames == {"", "y"}
DialogSetNames == {"", "b"}

NotName_never(name) == FALSE

\* if not name: return
NotName(name) == name = ""

AppendVariant_dropped(setName, name) == variantNames

\* variantSet.AppendVariant(name): the variant is authored on the prim, which
\* names the set on the prim too
AppendVariant(setName, name) ==
    [variantNames EXCEPT ![setName] = @ \cup {name}]

\* prim.GetVariantSets().AppendVariantSet(name) on the prim
AppendVariantSet(name) == AppendNew(topSets, name)

\* prim.GetVariantSets().AppendVariantSet(name) inside the edit context of
\* the variant of primVariant
AppendNestedVariantSet(primVariant, name) ==
    [nestedSets EXCEPT ![primVariant] = AppendNew(@, name)]

\* VariantContextMenuBuilder.AddVariant(selectedItem), the dialog returning name
AddVariant(item, name) ==
    /\ LaidOut
    /\ item \in TreeItems
    /\ Shown(item)
    /\ UNCHANGED <<primValid, prims>>
    /\ IF NotName(name)
       THEN /\ cancelled' = NotName(name)
            /\ UNCHANGED <<scene, treeId, children, expanded, resetCalls, added>>
       ELSE /\ resetCalls < MaxResets
            /\ variantNames' = AppendVariant(ItemSetName(item), name)
            /\ topSets' = AppendNew(topSets, ItemSetName(item))
            /\ Reset
            /\ cancelled' = FALSE
            /\ added' = Added("AddVariant", ItemSetName(item), name, NewTree)
            /\ UNCHANGED <<nestedSets, selection, session>>

\* VariantContextMenuBuilder.AddNestedVariantSet(selectedItem); with a name
\* given, for an item that has a variant to edit
AddNestedVariantSet(item, name) ==
    /\ LaidOut
    /\ item \in TreeItems
    /\ Shown(item)
    /\ UNCHANGED <<primValid, prims>>
    /\ IF NotName(name)
       THEN /\ cancelled' = NotName(name)
            /\ UNCHANGED <<scene, treeId, children, expanded, resetCalls, added>>
       ELSE /\ resetCalls < MaxResets
            /\ ItemVariantName(item) # ""
            /\ LET inside == ContextEnter(session, ItemVariants(item)) IN
                  /\ nestedSets' = AppendNestedVariantSet(ItemVariant(item), name)
                  /\ session' = ContextExit(session, inside)
            /\ Reset
            /\ cancelled' = FALSE
            /\ added' = Added("AddNestedVariantSet", name, "", NewTree)
            /\ UNCHANGED <<topSets, variantNames, selection>>

\* VariantContextMenuBuilder.AddVariantSet(), nothing selected in the view;
\* with a name given but no single valid prim the call on the prim raises
AddVariantSet(name) ==
    /\ LaidOut
    /\ UNCHANGED <<primValid, prims>>
    /\ IF NotName(name) \/ ModelPrim = "None" \/ ~primValid
       THEN /\ cancelled' = NotName(name)
            /\ UNCHANGED <<scene, treeId, children, expanded, resetCalls, added>>
       ELSE /\ resetCalls < MaxResets
            /\ topSets' = AppendVariantSet(name)
            /\ Reset
            /\ cancelled' = FALSE
            /\ added' = Added("AddVariantSet", name, "", NewTree)
            /\ UNCHANGED <<nestedSets, variantNames, selection, session>>

\* ---------------------------------------------------------------- specification

Next ==
    \/ \E node \in TreeNodes : RowCount(node)
    \/ \E node \in TreeItems : Expand(node)
    \/ \E sel \in SUBSET {"Q"}, desel \in SUBSET {"Q"} : PrimSelectionChanged(sel, desel)
    \/ EditTargetChanged
    \/ \E item \in TreeItems : SelectVariant(item)
    \/ SelectVariantNothing
    \/ \E item \in TreeItems, name \in DialogVariantNames : AddVariant(item, name)
    \/ \E item \in TreeItems, name \in DialogSetNames : AddNestedVariantSet(item, name)
    \/ \E name \in DialogSetNames : AddVariantSet(name)

Spec == Init /\ [][Next]_vars

\* ---------------------------------------------------------------- properties

AddActionState == <<topSets, nestedSets, variantNames, selection, session,
                    treeId, children, expanded, resetCalls>>

\* C1: an add action whose name dialog returns the empty string changes
\* nothing: not the prim's variant sets, variant names or selections, and the
\* model is not reset (no Reset call, the same item tree with the same items).
C1_EmptyNameCancels ==
    [][(\/ \E item \in TreeItems : AddVariant(item, "")
        \/ \E item \in TreeItems : AddNestedVariantSet(item, "")
        \/ AddVariantSet(""))
       => UNCHANGED AddActionState]_vars

\* an add action was cancelled on a prim that has variants and a fetched tree
C1_Witness ==
    /\ cancelled
    /\ TreeItems # {}
    /\ \E s \in SetNames : variantNames[s] # {}

\* C5: a fetched 'clear selection' item (empty variant name) has no children,
\* and its fetch returned the empty list without entering the session variant
\* context or querying the prim's variants.
C5_ClearSelectionIsLeaf ==
    \A n \in DOMAIN children :
        (IsVariantItem(n) /\ ItemVariantName(n) = "")
        => /\ children[n].items = <<>>
           /\ children[n].ret = "list"
           /\ ~children[n].entered
           /\ ~children[n].queried

\* the children of a clear-selection item under a parent variant were fetched
C5_Witness ==
    \E n \in DOMAIN children :
        /\ Len(n) = 2
        /\ ItemVariantName(n) = ""
        /\ \E m \in DOMAIN children : children[m].entered /\ children[m].items # <<>>

\* the node whose children this step fetched
FetchedNow(n) == n \notin DOMAIN children /\ n \in DOMAIN children'

\* the variant selections of the prim, as a reader of the stage sees them:
\* the opinion in force for every set, and the selection composition applies
StageSelections ==
    <<Effective(session),
      [s \in SetNames |-> GetVariantSelection(s, Effective(session))]>>

\* C6: a step that fetches the children of a node, or expands a node, leaves
\* every variant selection of the prim as it was, through the early return
\* from inside the with-block too; a selection opinion changes only in a
\* SelectVariant step.
C6_FetchKeepsSelections ==
    [][/\ ((\E n \in TreeNodes : FetchedNow(n)) \/ (\E n \in TreeItems : Expand(n)))
          => StageSelections' = StageSelections
       /\ Effective(session)' # Effective(session)
          => \E item \in TreeItems : SelectVariant(item)]_vars

\* children were fetched under a variant that is not the stage's selection,
\* and the stage's selections are the authored ones
C6_Witness ==
    /\ \E n \in DOMAIN children :
          /\ IsVariantItem(n)
          /\ children[n].entered
          /\ children[n].items # <<>>
          /\ selection[ItemSetName(n)] # ItemVariantName(n)
    /\ \E s \in SetNames : selection[s] # ""
    /\ \A s \in SetNames : session[s] = NoOpinion

\* what C4 asks of the result r of fetching the children of node n
FetchPost(n, r) ==
    LET chain == n
        pvs == getPrimVariants(Effective(ContextEnter(session, chain)))
        idx == {i \in 1..Len(pvs) : pvs[i] \notin Range(chain)}
    IN IF idx = {}
       THEN r.ret = "list" /\ r.items = <<>>
       ELSE LET pv == pvs[CHOOSE i \in idx : \A j \in idx : i <= j]
                names == variantNames[pv[1]] \cup {""}
            IN /\ r.ret = "list"
               /\ r.items[1] = chain \o <<pv>>
               /\ Len(r.items) = Cardinality(names)
               /\ {ItemVariantName(r.items[i]) : i \in 1..Len(r.items)} = names
               /\ \A i \in 1..Len(r.items) :
                     /\ ItemSetName(r.items[i]) = pv[1]
                     /\ ItemParentVariants(r.items[i]) = chain

Groups == {Range(children[n].items) : n \in DOMAIN children} \ {{}}

GroupSet(group) == ItemSetName(CHOOSE item \in group : TRUE)

\* the selection composition applies for the variant set, as read outside any
\* session variant context
CurrentSelection(setName) == GetVariantSelection(setName, Effective(session))

\* exactly one item of every sibling group is selected, the one named by the
\* variant set's current selection
OneSelectedPerGroup ==
    \A group \in Groups :
        /\ Cardinality({item \in group : Selected(item)}) = 1
        /\ \A item \in group :
              Selected(item) <=> ItemVariantName(item) = CurrentSelection(GroupSet(group))

AtMostOneSelectedPerGroup ==
    \A n \in DOMAIN children :
        LET items == children[n].items IN
        items # <<>> =>
            /\ \A i, j \in 1..Len(items) :
                  i # j => ItemVariantName(items[i]) # ItemVariantName(items[j])
            /\ \E i \in 1..Len(items) : ItemVariantName(items[i]) = ""
            /\ \A i \in 1..Len(items) :
                  Selected(items[i]) <=>
                     ItemVariantName(items[i]) = CurrentSelection(ItemSetName(items[1]))
            /\ Cardinality({i \in 1..Len(items) : Selected(items[i])}) <= 1

C2_FetchedOnlyWhenExpanded ==
    \A n \in DOMAIN children : IsVariantItem(n) => n \in expanded

\* C2, amended: the fetch is lazy per node, but it is the view's request for a
\* shown row's children that runs it, not the expansion of that row: the
\* children of a node are fetched when the node is the root, a top-level item
\* or an item under an expanded parent, only for a node of the tree, and once
\* per node of a tree; a Reset with exactly one prim selected leaves a new
\* tree of which nothing has been fetched.
C2_FetchedWhenShown ==
    [][/\ \A n \in DOMAIN children' :
             FetchedNow(n) => (n \in TreeNodes /\ Shown(n))
       /\ \A n \in DOMAIN children :
             treeId' = treeId => (n \in DOMAIN children' /\ children'[n] = children[n])
       /\ (resetCalls' # resetCalls /\ Cardinality(prims') = 1)
          => (treeId' # treeId /\ DOMAIN children' = {})]_vars

\* the children of an item were fetched although the item was never expanded
\* in this tree, and an item below it is not fetched
C2_Witness ==
    \E n \in DOMAIN children :
        /\ IsVariantItem(n)
        /\ n \notin expanded
        /\ children[n].items # <<>>
        /\ \A i \in 1..Len(children[n].items) :
              children[n].items[i] \notin DOMAIN children

\* every node of the tree has been fetched
FullyFetched == TreeNodes \subseteq DOMAIN children

\* the tree made by the last add action shows what the action added
ShowsAdded ==
    (added.tree = treeId /\ FullyFetched)
    => CASE added.op = "AddVariant" ->
                \E item \in TreeItems : /\ ItemSetName(item) = added.setName
                                        /\ ItemVariantName(item) = added.name
         [] added.op \in {"AddVariantSet", "AddNestedVariantSet"} ->
                \E item \in TreeItems : ItemSetName(item) = added.setName
         [] OTHER -> TRUE

AuthoredThenReset ==
    /\ \A item \in TreeItems, name \in DialogVariantNames \ {""} :
          AddVariant(item, name)
          => /\ name \in variantNames'[ItemSetName(item)]
             /\ resetCalls' = resetCalls + 1
    /\ \A item \in TreeItems, name \in DialogSetNames \ {""} :
          AddNestedVariantSet(item, name)
          => /\ name \in Range(nestedSets'[ItemVariant(item)])
             /\ resetCalls' = resetCalls + 1
    /\ \A name \in DialogSetNames \ {""} :
          (AddVariantSet(name) /\ ModelPrim # "None" /\ primValid)
          => /\ name \in Range(topSets')
             /\ resetCalls' = resetCalls + 1

NeverResets ==
    ((\E item \in TreeItems : SelectVariant(item)) \/ SelectVariantNothing
        \/ EditTargetChanged)
    => UNCHANGED <<treeId, children, expanded, resetCalls>>

====
